---- MODULE Spec2Model ----
(***************************************************************************)
(* Model of EnhancedNewsCollector (src/news-collector-enhanced.py): the    *)
(* news aggregation and ranking pipeline get_ai_news with its feed, page   *)
(* scrape and fallback stages, de-duplication, scoring and sorting.        *)
(*                                                                         *)
(* Text is a sequence of code points: an ASCII code point is the          *)
(* one-character string, any other code point is the string "Uxxxx".       *)
(* A point in time is an integer number of ticks, Sub ticks to the hour.   *)
(* The host's local time zone is taken to be UTC.                          *)
(***************************************************************************)
EXTENDS Integers, Sequences, FiniteSets, TLC

(***************************************************************************)
(* Bounds of the model.                                                    *)
(***************************************************************************)
MaxLimit == 2
MaxCalls == 2
MaxClock == 7
Sub == 2

(***************************************************************************)
(* Text helpers.                                                           *)
(***************************************************************************)
Chars(s) == [i \in 1..Len(s) |-> SubSeq(s, i, i)]

Rep(c, n) == [i \in 1..n |-> c]

Min(a, b) == IF a < b THEN a ELSE b

Max(a, b) == IF a < b THEN b ELSE a

\* s[:n] for n >= 0
Prefix(s, n) == SubSeq(s, 1, Min(n, Len(s)))

\* needle in hay
Contains(hay, needle) ==
    \E i \in 1..(Len(hay) - Len(needle) + 1) :
        \A j \in 1..Len(needle) : hay[i + j - 1] = needle[j]

\* hay.startswith(needle)
StartsWith(hay, needle) ==
    /\ Len(needle) <= Len(hay)
    /\ SubSeq(hay, 1, Len(needle)) = needle

UpperAlpha == "ABCDEFGHIJKLMNOPQRSTUVWXYZ"

LowerAlpha == "abcdefghijklmnopqrstuvwxyz"

\* the lower-case letter of every upper-case letter
LowerOf ==
    [u \in {SubSeq(UpperAlpha, i, i) : i \in 1..26} |->
        LET i == CHOOSE k \in 1..26 : SubSeq(UpperAlpha, k, k) = u
        IN  SubSeq(LowerAlpha, i, i)]

LowerChar(c) == IF c \in DOMAIN LowerOf THEN LowerOf[c] ELSE c

\* str.lower()
Lower(s) == [i \in 1..Len(s) |-> LowerChar(s[i])]

\* the characters matched by \s that occur in the model
Whitespace == {" ", "\t", "\n", "U3000", "U00A0"}

\* index of the first ">" of s at or after position i, 0 when there is none
RECURSIVE FirstGt(_, _)
FirstGt(s, i) ==
    IF i > Len(s) THEN 0
    ELSE IF s[i] = ">" THEN i
    ELSE FirstGt(s, i + 1)

\* re.sub(r'<[^>]+>', '', text); a text without "<" has no match
RECURSIVE StripTags(_)
StripTags(s) ==
    IF \A i \in 1..Len(s) : s[i] # "<" THEN s
    ELSE IF Head(s) = "<" /\ FirstGt(s, 2) >= 3
         THEN StripTags(SubSeq(s, FirstGt(s, 2) + 1, Len(s)))
         ELSE <<Head(s)>> \o StripTags(Tail(s))

RECURSIVE DropWs(_)
DropWs(s) ==
    IF s # <<>> /\ Head(s) \in Whitespace THEN DropWs(Tail(s)) ELSE s

\* re.sub(r'\s+', ' ', text); a text without whitespace has no match
RECURSIVE CollapseWs(_)
CollapseWs(s) ==
    IF \A i \in 1..Len(s) : s[i] \notin Whitespace THEN s
    ELSE IF Head(s) \in Whitespace
         THEN <<" ">> \o CollapseWs(DropWs(s))
         ELSE <<Head(s)>> \o CollapseWs(Tail(s))

RECURSIVE DropWsEnd(_)
DropWsEnd(s) ==
    IF s # <<>> /\ s[Len(s)] \in Whitespace
    THEN DropWsEnd(SubSeq(s, 1, Len(s) - 1))
    ELSE s

\* str.strip()
Strip(s) == DropWsEnd(DropWs(s))

\* str.replace(old, new) for a single character old
ReplaceChar(s, old, new) == [i \in 1..Len(s) |-> IF s[i] = old THEN new ELSE s[i]]

\* _clean_text
clean_text(text) ==
    ReplaceChar(ReplaceChar(Strip(CollapseWs(StripTags(text))), "U3000", " "),
                "U00A0", " ")

\* str.split('/')
RECURSIVE SplitSlash(_)
SplitSlash(s) ==
    LET RECURSIVE FirstSlash(_)
        FirstSlash(i) == IF i > Len(s) THEN 0
                         ELSE IF s[i] = "/" THEN i ELSE FirstSlash(i + 1)
        j == FirstSlash(1)
    IN  IF j = 0 THEN <<s>>
        ELSE <<SubSeq(s, 1, j - 1)>> \o SplitSlash(SubSeq(s, j + 1, Len(s)))

(***************************************************************************)
(* Fixed keyword tables.                                                   *)
(***************************************************************************)
ai_keywords ==
    << Chars("AI"),
       <<"U4EBA", "U5DE5", "U77E5", "U80FD">>,
       Chars("ChatGPT"),
       Chars("GPT"),
       Chars("Gemini"),
       Chars("Claude"),
       <<"U6A5F", "U68B0", "U5B66", "U7FD2">>,
       <<"U30C7", "U30A3", "U30FC", "U30D7", "U30E9", "U30FC", "U30CB", "U30F3", "U30B0">>,
       <<"U6DF1", "U5C64", "U5B66", "U7FD2">>,
       <<"U30CB", "U30E5", "U30FC", "U30E9", "U30EB", "U30CD", "U30C3", "U30C8">>,
       <<"U751F", "U6210">> \o Chars("AI"),
       Chars("LLM"),
       <<"U5927", "U898F", "U6A21", "U8A00", "U8A9E", "U30E2", "U30C7", "U30EB">>,
       <<"U753B", "U50CF", "U751F", "U6210">>,
       <<"U97F3", "U58F0", "U8A8D", "U8B58">>,
       Chars("OpenAI"),
       Chars("Google AI"),
       Chars("Microsoft AI"),
       Chars("Meta AI"),
       Chars("Stable Diffusion"),
       Chars("DALL-E"),
       Chars("Midjourney"),
       Chars("AI") \o <<"U30A2", "U30B7", "U30B9", "U30BF", "U30F3", "U30C8">>,
       <<"U30C1", "U30E3", "U30C3", "U30C8", "U30DC", "U30C3", "U30C8">>,
       <<"U81EA", "U52D5", "U5316">>,
       <<"U30ED", "U30DC", "U30C3", "U30C8">> >>

important_keywords ==
    << Chars("ChatGPT"),
       Chars("GPT-4"),
       Chars("Gemini"),
       Chars("Claude"),
       <<"U6700", "U65B0">>,
       <<"U767A", "U8868">>,
       <<"U65B0", "U6A5F", "U80FD">>,
       <<"U9769", "U65B0">> >>

trusted_sources == << Chars("Google News"), Chars("ITmedia"), Chars("ASCII") >>

gigazine_filter ==
    << Chars("AI"),
       <<"U4EBA", "U5DE5", "U77E5", "U80FD">>,
       Chars("ChatGPT"),
       <<"U6A5F", "U68B0", "U5B66", "U7FD2">> >>

\* self.rss_feeds; has_filter says whether the descriptor has a 'filter' key
rss_feeds ==
    << [name |-> Chars("Google News - AI"), has_filter |-> FALSE, filter |-> <<>>],
       [name |-> Chars("ITmedia AI+"),      has_filter |-> FALSE, filter |-> <<>>],
       [name |-> Chars("GIGAZINE"),         has_filter |-> TRUE,  filter |-> gigazine_filter] >>

\* self.web_sources
web_sources ==
    << [name |-> Chars("AI News Japan"), url |-> Chars("https://ledge.ai/categories/news/")],
       [name |-> Chars("ASCII AI"),      url |-> Chars("https://ascii.jp/ai/")] >>

\* keyword.lower() for keyword in ai_keywords
ai_keywords_lower == [k \in 1..Len(ai_keywords) |-> Lower(ai_keywords[k])]

\* _is_ai_related
is_ai_related(text) ==
    LET text_lower == Lower(text)
    IN  \E k \in 1..Len(ai_keywords_lower) : Contains(text_lower, ai_keywords_lower[k])

(***************************************************************************)
(* Dates.  A date string of a feed entry is the record of the layout it    *)
(* is written in, its zone suffix and the wall-clock hour it shows.  A     *)
(* datetime is its tick count and whether it carries a tzinfo.             *)
(***************************************************************************)
None == [none |-> TRUE, t |-> 0, aware |-> FALSE]

DateStr(fmt, zone, hour) == [fmt |-> fmt, zone |-> zone, hour |-> hour]

NoDate == DateStr("empty", "", 0)

Naive(t) == [none |-> FALSE, t |-> t, aware |-> FALSE]

Aware(t) == [none |-> FALSE, t |-> t, aware |-> TRUE]

\* date_str.replace('GMT', '+0000')
ReplaceGMT(zone) == IF zone = "GMT" THEN "+0000" ELSE zone

\* the zone names %Z accepts on a host whose local zone is UTC, after the
\* replacement of 'GMT' has been applied to the input
ZoneNames == {"UTC"}

\* the zone suffixes %z accepts
ZoneOffsets == {"+0000", "Z"}

\* datetime.strptime(s, fmt) for the four entries of date_formats, in order;
\* None when every format raises
parse_date(ds) ==
    IF ds.fmt = "empty" THEN None
    ELSE IF ds.fmt = "rfc822" /\ ReplaceGMT(ds.zone) \in ZoneNames THEN Naive(ds.hour * Sub)
    ELSE IF ds.fmt = "iso8601" /\ ReplaceGMT(ds.zone) \in ZoneOffsets THEN Aware(ds.hour * Sub)
    ELSE IF ds.fmt = "plain" /\ ds.zone = "" THEN Naive(ds.hour * Sub)
    ELSE IF ds.fmt = "slash" /\ ds.zone = "" THEN Naive(ds.hour * Sub)
    ELSE None

Digit(d) == SubSeq("0123456789", d + 1, d + 1)

\* datetime.isoformat() of a naive datetime: the whole part at a fixed
\* width, the fractional part only when it is not zero
isoformat(t) ==
    <<Digit((t \div Sub) \div 10), Digit((t \div Sub) % 10)>>
        \o (IF t % Sub = 0 THEN <<>> ELSE <<".", Digit(t % Sub)>>)

\* the point in time an isoformat text denotes
RECURSIVE DigitsValue(_, _)
DigitsValue(s, acc) ==
    IF s = <<>> THEN acc
    ELSE DigitsValue(Tail(s),
                     acc * 10 + (CHOOSE d \in 0..9 : Digit(d) = Head(s)))

TimeOf(text) ==
    DigitsValue(SubSeq(text, 1, 2), 0) * Sub
        + (IF Len(text) > 2 THEN DigitsValue(SubSeq(text, 4, Len(text)), 0) ELSE 0)

\* code point order of the characters of a timestamp text
CodeOrder == ".0123456789"

Code(c) == CHOOSE i \in 1..Len(CodeOrder) : SubSeq(CodeOrder, i, i) = c

\* a < b for Python str
RECURSIVE StrLess(_, _)
StrLess(a, b) ==
    IF b = <<>> THEN FALSE
    ELSE IF a = <<>> THEN TRUE
    ELSE IF Head(a) = Head(b) THEN StrLess(Tail(a), Tail(b))
    ELSE Code(Head(a)) < Code(Head(b))

(***************************************************************************)
(* Candidate records.                                                      *)
(***************************************************************************)
\* the dict built for a candidate; origin is a history field the program
\* does not have: the stage that built the record, whether an earlier call
\* built it, whether its feed entry states a time and the time it states
Origin(kind, earlier, dated, etime) ==
    [kind |-> kind, earlier |-> earlier, dated |-> dated, etime |-> etime]

Article(title, url, summary, source, published, origin) ==
    [title |-> title, url |-> url, summary |-> summary, source |-> source,
     published |-> published, score |-> 0, origin |-> origin]

\* the record without its score
Content(a) == [title |-> a.title, url |-> a.url, summary |-> a.summary,
               source |-> a.source, published |-> a.published]

\* hashlib.md5(article['title'][:30].encode()).hexdigest(): the digest is
\* taken to be collision free, so it is represented by the text it digests
title_hash(a) == Prefix(a.title, 30)

\* _remove_duplicates
RECURSIVE RemoveDupFrom(_, _, _)
RemoveDupFrom(news, unique_news, seen_titles) ==
    IF news = <<>> THEN unique_news
    ELSE IF title_hash(Head(news)) \notin seen_titles
         THEN RemoveDupFrom(Tail(news), Append(unique_news, Head(news)),
                            seen_titles \cup {title_hash(Head(news))})
         ELSE RemoveDupFrom(Tail(news), unique_news, seen_titles)

remove_duplicates(news) == RemoveDupFrom(news, <<>>, {})

\* a keyword loop that stops at the first match
KeywordScore_firstOnly(title, k) ==
    IF \E j \in k..Len(important_keywords) : Contains(title, important_keywords[j])
    THEN 10 ELSE 0

\* the keyword loop of _score_and_sort
RECURSIVE KeywordScore(_, _)
KeywordScore(title, k) ==
    IF k > Len(important_keywords) THEN 0
    ELSE (IF Contains(title, important_keywords[k]) THEN 10 ELSE 0)
         + KeywordScore(title, k + 1)

http == Chars("http")

\* a score that starts from the score the dict already holds
ScoreOf_accum(a) ==
    a.score + KeywordScore(a.title, 1)
    + (IF \E k \in 1..Len(trusted_sources) : Contains(a.source, trusted_sources[k])
       THEN 5 ELSE 0)
    + (IF Len(a.summary) > 100 THEN 3 ELSE 0)
    + (IF a.url # <<>> /\ StartsWith(a.url, http) THEN 2 ELSE 0)

\* score = 0 and the additions of _score_and_sort
ScoreOf(a) ==
    KeywordScore(a.title, 1)
    + (IF \E k \in 1..Len(trusted_sources) : Contains(a.source, trusted_sources[k])
       THEN 5 ELSE 0)
    + (IF Len(a.summary) > 100 THEN 3 ELSE 0)
    + (IF a.url # <<>> /\ StartsWith(a.url, http) THEN 2 ELSE 0)

\* a key without the tie-break
KeyLess_scoreOnly(x, y) == x.score < y.score

\* key(x) < key(y) for key = (score, published)
KeyLess(x, y) ==
    \/ x.score < y.score
    \/ x.score = y.score /\ StrLess(x.published, y.published)

\* the stable descending insertion of x into the sorted list
RECURSIVE InsertDesc(_, _)
InsertDesc(sorted, x) ==
    IF sorted = <<>> THEN <<x>>
    ELSE IF KeyLess(Head(sorted), x) THEN <<x>> \o sorted
    ELSE <<Head(sorted)>> \o InsertDesc(Tail(sorted), x)

RECURSIVE SortDescFrom(_, _)
SortDescFrom(news, sorted) ==
    IF news = <<>> THEN sorted
    ELSE SortDescFrom(Tail(news), InsertDesc(sorted, Head(news)))

\* sorted(news_list, key=lambda x: (x['score'], x['published']), reverse=True)
SortDesc(news) == SortDescFrom(news, <<>>)

\* _score_and_sort
score_and_sort(news) ==
    SortDesc([i \in 1..Len(news) |-> [news[i] EXCEPT !.score = ScoreOf(news[i])]])

\* a slice that does not cut
Truncate_noCut(news, limit) == news

\* scored_news[:limit], for any integer limit
Truncate(news, limit) ==
    IF limit >= 0 THEN Prefix(news, limit)
    ELSE SubSeq(news, 1, Max(0, Len(news) + limit))

(***************************************************************************)
(* What the sources can answer.                                            *)
(***************************************************************************)
Entry(title, link, summary, published) ==
    [title |-> title, link |-> link, summary |-> summary, published |-> published]

eA == Entry(Chars("ChatGPT-4 AI"), Chars("http://n/a"), Rep("x", 101),
            DateStr("plain", "", 0))

eB == Entry(Chars("  <b>Gemini</b>\t AI "), Chars("http://n/a"), <<>>,
            DateStr("rfc822", "UTC", 1))

eC == Entry(Chars("Claude news"), Chars("ftp://n/c"), Chars("s"),
            DateStr("rfc822", "GMT", 0))

eD == Entry(Chars("LLM"), Chars("http://n/d"), Chars("s"),
            DateStr("iso8601", "+0000", 2))

\* an entry whose title is markup and whitespace only
eE == Entry(Chars(" <p> </p> "), Chars("http://n/e"), Chars("s"),
            DateStr("plain", "", 1))

\* feedparser.parse(url): it raises, or it returns a feed with entries
FeedRaise == [kind |-> "raise", entries |-> <<>>]

FeedOk(entries) == [kind |-> "ok", entries |-> entries]

\* per feed of self.rss_feeds, the answers it can give
FeedResponses ==
    << { FeedRaise, FeedOk(<<>>), FeedOk(<<eA>>), FeedOk(<<eC, eB, eE, eD>>) },
       { FeedOk(<<>>), FeedOk(<<eA>>) },
       { FeedOk(<<>>), FeedOk(<<eC, eB, eE, eD>>) } >>

\* a container of a scraped page: its title, link and summary elements
Container(has_title, title, has_link, href, has_summary, summary) ==
    [has_title |-> has_title, title |-> title, has_link |-> has_link,
     href |-> href, has_summary |-> has_summary, summary |-> summary]

wA == Container(TRUE, Chars(" rain  report "), TRUE, Chars("/w/a"), FALSE, <<>>)

wB == Container(TRUE, Chars("weather"), TRUE, Chars("http://w/b"), TRUE, Chars("s"))

wC == Container(TRUE, Chars("OpenAI <i>x</i>"), TRUE, Chars("http://n/a"),
                TRUE, Rep("y", 250))

wD == Container(FALSE, <<>>, TRUE, Chars("http://w/d"), FALSE, <<>>)

wE == Container(TRUE, Chars("AI"), FALSE, <<>>, TRUE, Chars("s"))

\* a headline of 190 characters without a summary element
wF == Container(TRUE, Chars("AI") \o Rep("z", 188), TRUE, Chars("http://w/f"),
                FALSE, <<>>)

\* requests.get(url, ...): it raises, or it returns a response with a status
WebRaise == [kind |-> "raise", status_code |-> 0, containers |-> <<>>]

WebPage(status_code, containers) ==
    [kind |-> "ok", status_code |-> status_code, containers |-> containers]

\* per page of self.web_sources, the answers it can give
WebResponses ==
    << { WebRaise, WebPage(500, <<wA>>), WebPage(200, <<>>),
         WebPage(200, <<wA, wB>>), WebPage(200, <<wC, wD, wE, wF>>) },
       { WebRaise, WebPage(200, <<>>), WebPage(200, <<wA, wB>>) } >>

\* the arguments of get_ai_news and the clock readings at its start
Limits == (0 - 1)..MaxLimit

HoursBack == {1, 3}

StartClocks == {4}

\* the host's clock advances by this much between two readings
Ticks == {0, 1}

(***************************************************************************)
(* State.                                                                  *)
(***************************************************************************)
VARIABLES
    collected_news,   \* self.collected_news
    seen_urls,        \* self.seen_urls
    pc,               \* position of the running get_ai_news call, or "idle"
    idx,              \* position of the for loop of the running stage
    limit,            \* argument limit of the running (or last) call
    time_limit,       \* time_limit of the running (or last) call
    clock,            \* the next reading of datetime.now()
    tick,             \* how far the host's clock advances between two readings
    result,           \* the list the last call returned
    calls,            \* calls completed on this collector
    first_seen,       \* history: per URL, the first candidate seen with it
    last,             \* history: what the last source iteration did
    attempted,        \* history: the sources requested by this call, in order
    world,            \* the fixed answers of the sources, when runs are repeated
    prev              \* history: the result of the previous run over world

vars == <<collected_news, seen_urls, pc, idx, limit, time_limit, clock, tick,
          result, calls, first_seen, last, attempted, world, prev>>

\* the variables only repeated runs use
repeat_vars == <<world, prev>>

\* failed: the iteration ended in its except clause; added: records it
\* appended; slept: it reached its time.sleep; dup: the URL of the last
\* candidate it dropped as already seen; irrelevant: titles it dropped as
\* not AI related; quiet: every source of this call has so far returned no
\* entry and no container
NoLast ==
    [stage |-> "none", idx |-> 0, failed |-> FALSE, added |-> 0, slept |-> FALSE,
     dup |-> <<>>, irrelevant |-> 0, quiet |-> TRUE]

NoWorld == [limit |-> 0, hours |-> 0, start |-> 0, feeds |-> <<>>, webs |-> <<>>]

NoPrev == [done |-> FALSE, result |-> <<>>]

\* __init__
InitCollector ==
    /\ collected_news = <<>>
    /\ seen_urls = {}
    /\ pc = "idle"
    /\ idx = 0
    /\ limit = 0
    /\ time_limit = 0
    /\ clock = 0
    /\ tick \in Ticks
    /\ result = <<>>
    /\ calls = 0
    /\ first_seen = {}
    /\ last = NoLast
    /\ attempted = <<>>
    /\ prev = NoPrev

Init == InitCollector /\ world = NoWorld

\* the clock after a reading
Advance(c) == Min(c + tick, MaxClock)

\* the working state of one source iteration
Work(news, seen, clk, first) ==
    [news |-> news, seen |-> seen, clock |-> clk, first |-> first, raised |-> FALSE,
     dup |-> <<>>, irrelevant |-> 0]

\* a check that forgets seen_urls
IsNewUrl_anyUrl(url, seen) == url # <<>>

\* if article['url'] and article['url'] not in self.seen_urls
IsNewUrl(url, seen) == url # <<>> /\ url \notin seen

\* history: the candidates seen first under their URL
NoteFirst(first, article) ==
    IF article.url # <<>> /\ ~\E f \in first : f.url = article.url
    THEN first \cup {Content(article)}
    ELSE first

\* an append that does not record the URL
Insert_noSeen(st, article) ==
    IF article.url # <<>>
    THEN [st EXCEPT !.news = Append(st.news, article)]
    ELSE st

\* the URL check and the append that follows it
Insert(st, article) ==
    IF IsNewUrl(article.url, st.seen)
    THEN [st EXCEPT !.news = Append(st.news, article),
                    !.seen = st.seen \cup {article.url},
                    !.first = NoteFirst(st.first, article)]
    ELSE [st EXCEPT !.first = NoteFirst(st.first, article),
                    !.dup = article.url]

(***************************************************************************)
(* get_ai_news: entry.                                                     *)
(***************************************************************************)
Call(l, h, c) ==
    /\ pc = "idle"
    /\ calls < MaxCalls
    /\ limit' = l
    /\ time_limit' = c - h * Sub
    /\ clock' = Advance(c)
    /\ pc' = "rss"
    /\ idx' = 1
    /\ result' = <<>>
    /\ last' = NoLast
    /\ attempted' = <<>>
    /\ UNCHANGED <<collected_news, seen_urls, tick, calls, first_seen>>

(***************************************************************************)
(* _collect_from_rss: one iteration of the loop over self.rss_feeds.       *)
(***************************************************************************)
PassesFilter(feed, title) ==
    feed.has_filter => \E k \in 1..Len(feed.filter) : Contains(title, feed.filter[k])

\* published < time_limit; comparing an aware with a naive datetime raises
TooOld(published) == ~published.none /\ published.t < time_limit

\* the body of the loop over feed.entries for one entry
RssEntry(st, feed, entry) ==
    LET published == parse_date(entry.published)
    IN  IF ~published.none /\ published.aware THEN [st EXCEPT !.raised = TRUE]
        ELSE IF TooOld(published) THEN st
        ELSE IF ~PassesFilter(feed, entry.title) THEN st
        ELSE LET article ==
                   Article(clean_text(entry.title), entry.link,
                           clean_text(Prefix(entry.summary, 200)), feed.name,
                           IF published.none THEN isoformat(st.clock)
                                             ELSE isoformat(published.t),
                           Origin("feed", FALSE, entry.published.fmt # "empty",
                                  entry.published.hour * Sub))
                 st1 == IF published.none
                        THEN [st EXCEPT !.clock = Advance(st.clock)] ELSE st
             IN  Insert(st1, article)

RECURSIVE RssEntries(_, _, _)
RssEntries(st, feed, entries) ==
    IF entries = <<>> \/ st.raised THEN st
    ELSE RssEntries(RssEntry(st, feed, Head(entries)), feed, Tail(entries))

RssSource(resp) ==
    /\ pc = "rss"
    /\ LET st0 == Work(collected_news, seen_urls, clock, first_seen)
           st  == IF resp.kind = "raise" THEN [st0 EXCEPT !.raised = TRUE]
                  ELSE RssEntries(st0, rss_feeds[idx], Prefix(resp.entries, 10))
       IN  /\ collected_news' = st.news
           /\ seen_urls' = st.seen
           /\ clock' = st.clock
           /\ first_seen' = st.first
           /\ last' = [stage |-> "rss", idx |-> idx, failed |-> st.raised,
                       added |-> Len(st.news) - Len(collected_news),
                       slept |-> ~st.raised /\ resp.entries # <<>>,
                       dup |-> st.dup, irrelevant |-> st.irrelevant,
                       quiet |-> last.quiet /\ resp.entries = <<>>]
    /\ attempted' = Append(attempted, <<"rss", idx>>)
    /\ IF idx < Len(rss_feeds)
       THEN idx' = idx + 1 /\ pc' = pc
       ELSE idx' = 0 /\ pc' = "web_gate"
    /\ UNCHANGED <<limit, time_limit, tick, result, calls>>

(***************************************************************************)
(* _collect_from_web: one iteration of the loop over self.web_sources.     *)
(***************************************************************************)
\* source['url'].split('/')[0] + '//' + source['url'].split('/')[2]
BaseOf(source_url) ==
    SplitSlash(source_url)[1] \o Chars("//") \o SplitSlash(source_url)[3]

SynthSuffix ==
    <<"U306B", "U95A2", "U3059", "U308B", "U6700", "U65B0", "U60C5", "U5831",
      "U3067", "U3059", "U3002">>

\* a scrape that keeps every title
Relevant_all(title) == TRUE

\* if not self._is_ai_related(title): continue
Relevant(title) == is_ai_related(title)

\* the body of the loop over containers for one container
WebContainer(st, source, c) ==
    IF ~c.has_title THEN st
    ELSE LET title == clean_text(c.title)
         IN  IF ~Relevant(title) THEN [st EXCEPT !.irrelevant = st.irrelevant + 1]
             ELSE LET href == IF c.has_link THEN c.href ELSE <<>>
                      url == IF href # <<>> /\ ~StartsWith(href, http)
                             THEN BaseOf(source.url) \o href ELSE href
                      summary == IF c.has_summary
                                 THEN clean_text(Prefix(c.summary, 200)) ELSE <<>>
                      article ==
                          Article(title, url,
                                  IF summary # <<>> THEN summary
                                  ELSE title \o SynthSuffix,
                                  source.name, isoformat(st.clock),
                                  Origin("web", FALSE, FALSE, 0))
                  IN  Insert([st EXCEPT !.clock = Advance(st.clock)], article)

RECURSIVE WebContainers(_, _, _)
WebContainers(st, source, containers) ==
    IF containers = <<>> THEN st
    ELSE WebContainers(WebContainer(st, source, Head(containers)), source,
                       Tail(containers))

WebSource(resp) ==
    /\ pc = "web"
    /\ LET st0 == Work(collected_news, seen_urls, clock, first_seen)
           st  == IF resp.kind = "raise" THEN [st0 EXCEPT !.raised = TRUE]
                  ELSE IF resp.status_code # 200 THEN st0
                  ELSE WebContainers(st0, web_sources[idx], Prefix(resp.containers, 5))
       IN  /\ collected_news' = st.news
           /\ seen_urls' = st.seen
           /\ clock' = st.clock
           /\ first_seen' = st.first
           /\ last' = [stage |-> "web", idx |-> idx, failed |-> st.raised,
                       added |-> Len(st.news) - Len(collected_news),
                       slept |-> ~st.raised /\ resp.status_code = 200,
                       dup |-> st.dup, irrelevant |-> st.irrelevant,
                       quiet |-> last.quiet /\ (resp.status_code = 200
                                                   => resp.containers = <<>>)]
    /\ attempted' = Append(attempted, <<"web", idx>>)
    /\ IF idx < Len(web_sources)
       THEN idx' = idx + 1 /\ pc' = pc
       ELSE idx' = 0 /\ pc' = "fb_gate"
    /\ UNCHANGED <<limit, time_limit, tick, result, calls>>

\* a test that always finds the working set short
Short_always(news, l) == TRUE

\* len(self.collected_news) < limit
Short(news, l) == Len(news) < l

\* if len(self.collected_news) < limit: self._collect_from_web()
WebGate ==
    /\ pc = "web_gate"
    /\ IF Short(collected_news, limit)
       THEN pc' = "web" /\ idx' = 1
       ELSE pc' = "fb_gate" /\ idx' = 0
    /\ UNCHANGED <<collected_news, seen_urls, limit, time_limit, clock, tick,
                   result, calls, first_seen, last, attempted>>

(***************************************************************************)
(* _add_fallback_news.                                                     *)
(***************************************************************************)
fb1_title ==
    <<"U3010", "U6700", "U65B0", "U3011", "U751F", "U6210">> \o Chars("AI")
        \o <<"U304C", "U5909", "U3048", "U308B", "U79C1", "U305F", "U3061",
             "U306E", "U672A", "U6765">>

fb1_summary ==
    Chars("ChatGPT") \o <<"U3084">> \o Chars("Gemini")
        \o <<"U306A", "U3069", "U306E", "U751F", "U6210">> \o Chars("AI")
        \o <<"U304C", "U3001", "U6559", "U80B2", "U3084", "U30D3", "U30B8",
             "U30CD", "U30B9", "U306E", "U73FE", "U5834", "U3067", "U6025",
             "U901F", "U306B", "U666E", "U53CA", "U3057", "U3066", "U3044",
             "U307E", "U3059", "U3002">> \o Chars("AI")
        \o <<"U3068", "U306E", "U5171", "U5B58", "U306B", "U3064", "U3044",
             "U3066", "U8003", "U3048", "U308B", "U6642", "U304C", "U6765",
             "U3066", "U3044", "U307E", "U3059", "U3002">>

fb2_title ==
    Chars("AI") \o <<"U6280", "U8853", "U306E", "U502B", "U7406", "U7684",
                     "U306A", "U8AB2", "U984C", "U3068", "U89E3", "U6C7A", "U7B56">>

fb2_summary ==
    Chars("AI")
        \o <<"U6280", "U8853", "U306E", "U767A", "U5C55", "U306B", "U4F34",
             "U3044", "U3001", "U30D7", "U30E9", "U30A4", "U30D0", "U30B7",
             "U30FC", "U3084", "U8457", "U4F5C", "U6A29", "U306A", "U3069",
             "U306E", "U502B", "U7406", "U7684", "U306A", "U8AB2", "U984C",
             "U304C", "U6D6E", "U4E0A", "U3057", "U3066", "U3044", "U307E",
             "U3059", "U3002", "U9069", "U5207", "U306A", "U30EB", "U30FC",
             "U30EB", "U4F5C", "U308A", "U304C", "U6C42", "U3081", "U3089",
             "U308C", "U3066", "U3044", "U307E", "U3059", "U3002">>

fb3_title ==
    <<"U65E5", "U672C", "U4F01", "U696D", "U306E">> \o Chars("AI")
        \o <<"U6D3B", "U7528", "U4E8B", "U4F8B">> \o Chars("10") \o <<"U9078">>

fb3_summary ==
    <<"U88FD", "U9020", "U696D", "U304B", "U3089", "U30B5", "U30FC", "U30D3",
      "U30B9", "U696D", "U307E", "U3067", "U3001", "U69D8", "U3005", "U306A",
      "U5206", "U91CE", "U3067">> \o Chars("AI")
        \o <<"U304C", "U6D3B", "U7528", "U3055", "U308C", "U3066", "U3044",
             "U307E", "U3059", "U3002", "U6210", "U529F", "U4E8B", "U4F8B",
             "U304B", "U3089", "U5B66", "U3076">> \o Chars("AI")
        \o <<"U5C0E", "U5165", "U306E", "U30DD", "U30A4", "U30F3", "U30C8",
             "U3092", "U7D39", "U4ECB", "U3057", "U307E", "U3059", "U3002">>

\* the literals of fallback_news, in the order of the list, without 'published'
FallbackDecl ==
    << [title |-> fb1_title, summary |-> fb1_summary,
        url |-> Chars("https://example.com/ai-future"),
        source |-> Chars("AI Times (Fallback)")],
       [title |-> fb2_title, summary |-> fb2_summary,
        url |-> Chars("https://example.com/ai-ethics"),
        source |-> Chars("Tech Ethics (Fallback)")],
       [title |-> fb3_title, summary |-> fb3_summary,
        url |-> Chars("https://example.com/ai-cases"),
        source |-> Chars("Business AI (Fallback)")] >>

\* fallback_news: the list literal is built first, one clock reading per record
FallbackNews(clk) ==
    LET c1 == clk
        c2 == Advance(c1)
        c3 == Advance(c2)
        at == <<c1, c2, c3>>
    IN  [i \in 1..Len(FallbackDecl) |->
            Article(FallbackDecl[i].title, FallbackDecl[i].url,
                    FallbackDecl[i].summary, FallbackDecl[i].source,
                    isoformat(at[i]), Origin("fallback", FALSE, FALSE, 0))]

\* a fallback supplier that appends nothing
AddFallback_none(st, news) == st

\* the loop of _add_fallback_news
RECURSIVE AddFallback(_, _)
AddFallback(st, news) ==
    IF news = <<>> THEN st
    ELSE AddFallback(
            IF Head(news).url \notin st.seen
            THEN [st EXCEPT !.news = Append(st.news, Head(news)),
                            !.seen = st.seen \cup {Head(news).url},
                            !.first = NoteFirst(st.first, Head(news))]
            ELSE [st EXCEPT !.first = NoteFirst(st.first, Head(news)),
                            !.dup = Head(news).url],
            Tail(news))

\* if len(self.collected_news) < limit: self._add_fallback_news()
FallbackGate ==
    /\ pc = "fb_gate"
    /\ IF Short(collected_news, limit)
       THEN LET st == AddFallback(Work(collected_news, seen_urls, clock, first_seen),
                                  FallbackNews(clock))
            IN  /\ collected_news' = st.news
                /\ seen_urls' = st.seen
                /\ first_seen' = st.first
                /\ clock' = Advance(Advance(Advance(clock)))
                /\ attempted' = Append(attempted, <<"fallback", 0>>)
       ELSE UNCHANGED <<collected_news, seen_urls, first_seen, clock, attempted>>
    /\ pc' = "finish"
    /\ UNCHANGED <<idx, limit, time_limit, tick, result, calls, last>>

(***************************************************************************)
(* get_ai_news: steps 4 to 6.                                              *)
(***************************************************************************)
\* article is appended to unique_news by _remove_duplicates
KeptAt(news, i) == \A j \in 1..(i - 1) : title_hash(news[j]) # title_hash(news[i])

\* article['score'] = score writes into the dicts self.collected_news holds
Rescored(news) ==
    [i \in 1..Len(news) |->
        IF KeptAt(news, i) THEN [news[i] EXCEPT !.score = ScoreOf(news[i])]
        ELSE news[i]]

Finish ==
    /\ pc = "finish"
    /\ result' = Truncate(score_and_sort(remove_duplicates(collected_news)), limit)
    /\ collected_news' = Rescored(collected_news)
    /\ pc' = "return"
    /\ UNCHANGED <<seen_urls, idx, limit, time_limit, clock, tick, calls,
                   first_seen, last, attempted>>

\* return result: the locals of the call are gone, the collector stays
Return ==
    /\ pc = "return"
    /\ pc' = "idle"
    /\ calls' = calls + 1
    /\ idx' = 0
    /\ limit' = 0
    /\ time_limit' = 0
    /\ clock' = 0
    /\ result' = <<>>
    /\ last' = NoLast
    /\ attempted' = <<>>
    /\ collected_news' = [i \in 1..Len(collected_news) |->
                             [collected_news[i] EXCEPT !.origin.earlier = TRUE]]
    /\ UNCHANGED <<seen_urls, tick, first_seen>>

\* a new EnhancedNewsCollector replaces the collector
NewCollector ==
    /\ pc = "idle"
    /\ calls > 0
    /\ collected_news' = <<>>
    /\ seen_urls' = {}
    /\ idx' = 0
    /\ limit' = 0
    /\ time_limit' = 0
    /\ clock' = 0
    /\ tick' \in Ticks
    /\ result' = <<>>
    /\ calls' = 0
    /\ first_seen' = {}
    /\ last' = NoLast
    /\ attempted' = <<>>
    /\ pc' = "idle"

(***************************************************************************)
(* The collector under any sequence of calls and any answers.              *)
(***************************************************************************)
CallAny ==
    /\ \E l \in Limits, h \in HoursBack, c \in StartClocks : Call(l, h, c)
    /\ UNCHANGED repeat_vars

RssAny ==
    /\ pc = "rss"
    /\ \E resp \in FeedResponses[idx] : RssSource(resp)
    /\ UNCHANGED repeat_vars

WebGateAny == WebGate /\ UNCHANGED repeat_vars

WebAny ==
    /\ pc = "web"
    /\ \E resp \in WebResponses[idx] : WebSource(resp)
    /\ UNCHANGED repeat_vars

FallbackAny == FallbackGate /\ UNCHANGED repeat_vars

FinishAny == Finish /\ UNCHANGED repeat_vars

ReturnAny == Return /\ UNCHANGED repeat_vars

NewCollectorAny == NewCollector /\ UNCHANGED repeat_vars

Next ==
    \/ CallAny
    \/ RssAny
    \/ WebGateAny
    \/ WebAny
    \/ FallbackAny
    \/ FinishAny
    \/ ReturnAny
    \/ NewCollectorAny

Spec == Init /\ [][Next]_vars

(***************************************************************************)
(* The collector under repeated runs of one call over the same answers of  *)
(* the sources and the same clock readings, on the same collector or on a  *)
(* new one.                                                                *)
(***************************************************************************)

Range(f) == {f[i] : i \in DOMAIN f}

\* one answer of every source, each from the answers that source can give
Answers(responses) ==
    {f \in [DOMAIN responses -> UNION Range(responses)] :
        \A i \in DOMAIN responses : f[i] \in responses[i]}

Worlds ==
    [limit : Limits, hours : HoursBack, start : StartClocks,
     feeds : Answers(FeedResponses), webs : Answers(WebResponses)]

InitRepeat == InitCollector /\ world \in Worlds

CallRepeat ==
    /\ Call(world.limit, world.hours, world.start)
    /\ UNCHANGED repeat_vars

RssRepeat ==
    /\ pc = "rss"
    /\ RssSource(world.feeds[idx])
    /\ UNCHANGED repeat_vars

WebRepeat ==
    /\ pc = "web"
    /\ WebSource(world.webs[idx])
    /\ UNCHANGED repeat_vars

ReturnRepeat ==
    /\ Return
    /\ prev' = [done |-> TRUE, result |-> result]
    /\ world' = world

NewCollectorRepeat ==
    /\ NewCollector
    /\ tick' = tick
    /\ UNCHANGED repeat_vars

NextRepeat ==
    \/ CallRepeat
    \/ RssRepeat
    \/ WebGateAny
    \/ WebRepeat
    \/ FallbackAny
    \/ FinishAny
    \/ ReturnRepeat
    \/ NewCollectorRepeat

SpecRepeat == InitRepeat /\ [][NextRepeat]_vars

\* a call is returning result
Returned == pc = "return"



(***************************************************************************)
(* C1: every call returns at most limit records.                           *)
(***************************************************************************)
\* C1 as stated: for any limit, the returned list has at most limit records.
C1_AnyLimit == Returned => Len(result) <= limit

\* C1 amended: for any limit >= 0, any recency window, any answers of the
\* sources and any earlier calls on the collector, the returned list has at
\* most limit records.
C1_AtMostLimit == (Returned /\ limit >= 0) => Len(result) <= limit

\* a later call on a collector that holds more unique records than limit
C1_Witness ==
    /\ Returned
    /\ limit >= 1
    /\ Len(result) = limit
    /\ Len(remove_duplicates(collected_news)) > limit
    /\ \E i \in 1..Len(collected_news) : collected_news[i].origin.earlier

(***************************************************************************)
(* C2: the result is never empty.                                          *)
(***************************************************************************)
\* C2 as stated: every call returns at least one record, for any limit.
C2_AnyLimit == Returned => Len(result) >= 1

\* C2 amended: every call with limit >= 1 returns at least one record, also
\* when every feed and every page fails or returns nothing.
C2_NonEmpty == (Returned /\ limit >= 1) => Len(result) >= 1

\* every source answered nothing, the last page request raised, and the call
\* still returns records
C2_Witness ==
    /\ Returned
    /\ limit >= 1
    /\ last.quiet
    /\ last.stage = "web"
    /\ last.failed
    /\ Len(result) >= 1

(***************************************************************************)
(* C3: one record per URL, the first one seen.                             *)
(***************************************************************************)
\* C3: no two records of a result share a non-empty URL, and the record a
\* result holds for a URL is the first candidate the collector saw with it.
C3_FirstSeenWins ==
    Returned =>
        /\ \A i, j \in 1..Len(result) :
              (i < j /\ result[i].url # <<>>) => result[i].url # result[j].url
        /\ \A i \in 1..Len(result) : Content(result[i]) \in first_seen

\* the last source offered a URL the collector had seen, and the result holds
\* the record of that URL
C3_Witness ==
    /\ Returned
    /\ last.dup # <<>>
    /\ \E i \in 1..Len(result) : result[i].url = last.dup

(***************************************************************************)
(* C4: the result is sorted by score, then by time, both descending.       *)
(***************************************************************************)
\* C4: of two adjacent records the first has the greater score, or the same
\* score and a published time that is later or equal.
C4_Sorted ==
    Returned =>
        \A i \in 1..(Len(result) - 1) :
            \/ result[i].score > result[i + 1].score
            \/ /\ result[i].score = result[i + 1].score
               /\ TimeOf(result[i].published) >= TimeOf(result[i + 1].published)

\* a result where the time decides a pair of equal scores, and puts first the
\* record that was collected second
C4_Witness ==
    /\ Returned
    /\ \E i \in 1..(Len(result) - 1) :
          /\ result[i].score = result[i + 1].score
          /\ TimeOf(result[i].published) > TimeOf(result[i + 1].published)
          /\ \E m, n \in 1..Len(collected_news) :
                /\ m < n
                /\ collected_news[m].url = result[i + 1].url
                /\ collected_news[n].url = result[i].url

(***************************************************************************)
(* C5: feed entries older than the cutoff are not returned.                *)
(***************************************************************************)
\* C5 as stated: no record of a result was built from a feed entry whose
\* stated time is strictly older than the cutoff of the call.
C5_NoOldEntry ==
    Returned =>
        \A i \in 1..Len(result) :
            (result[i].origin.kind = "feed" /\ result[i].origin.dated)
                => result[i].origin.etime >= time_limit

(***************************************************************************)
(* C6: with silent sources a new collector returns the fallback records    *)
(* in declared order.                                                      *)
(***************************************************************************)
Declared(a) == [title |-> a.title, summary |-> a.summary, url |-> a.url,
                source |-> a.source]

\* C6 as stated: when every feed and every page returns nothing, the first
\* call on a collector returns the declared fallback list cut to limit.
C6_DeclaredOrder ==
    (Returned /\ calls = 0 /\ limit >= 0 /\ last.quiet) =>
        [i \in 1..Len(result) |-> Declared(result[i])] = Prefix(FallbackDecl, limit)

(***************************************************************************)
(* C7: the score.                                                          *)
(***************************************************************************)
Bonus(cond, n) == IF cond THEN n ELSE 0

\* the score the rule gives to a title, a source, a summary and a URL
RuleScore(title, source, summary, url) ==
    10 * Cardinality({k \in 1..Len(important_keywords) :
                         Contains(title, important_keywords[k])})
    + Bonus(\E k \in 1..Len(trusted_sources) : Contains(source, trusted_sources[k]), 5)
    + Bonus(Len(summary) > 100, 3)
    + Bonus(url # <<>> /\ StartsWith(url, http), 2)

C8_ScrapedRelevant ==
    Returned =>
        \A i \in 1..Len(result) :
            result[i].origin.kind = "web" =>
                \E k \in 1..Len(ai_keywords) :
                    Contains(Lower(result[i].title), Lower(ai_keywords[k]))

\* the last page held a title without a keyword, and the result holds a
\* scraped record
C8_Witness ==
    /\ Returned
    /\ last.stage = "web"
    /\ last.irrelevant > 0
    /\ \E i \in 1..Len(result) : result[i].origin.kind = "web"

(***************************************************************************)
(* C9: a repeated run returns the same list.                               *)
(***************************************************************************)
Visible(a) == [title |-> a.title, url |-> a.url, summary |-> a.summary,
               source |-> a.source, published |-> a.published, score |-> a.score]

\* C9: a run over the same limit, window, answers and clock readings as the
\* run before it returns the same records with the same scores in the same
\* order, on the same collector and on a new one.
C9_SameResult ==
    (Returned /\ prev.done) =>
        [i \in 1..Len(result) |-> Visible(result[i])]
            = [i \in 1..Len(prev.result) |-> Visible(prev.result[i])]

\* the second run on the same collector returns records the first run built
C9_Witness ==
    /\ Returned
    /\ prev.done
    /\ calls >= 1
    /\ Len(result) >= 2
    /\ \E i \in 1..Len(result) : result[i].origin.earlier

(***************************************************************************)
(* C10: a failing source is isolated.                                      *)
(***************************************************************************)
\* C10 as stated: a source iteration that fails has appended no record, and
\* a stage that has ended has requested every one of its sources.
C10_Isolated ==
    /\ last.failed => last.added = 0
    /\ pc = "web_gate" =>
          \A k \in 1..Len(rss_feeds) : <<"rss", k>> \in Range(attempted)
    /\ (pc = "fb_gate" /\ last.stage = "web") =>
          \A k \in 1..Len(web_sources) : <<"web", k>> \in Range(attempted)

(***************************************************************************)
(* C11: the stages run in a fixed order behind their gates.                *)
(***************************************************************************)
\* the requests a call can make, in the order of the code
Stages ==
    [k \in 1..Len(rss_feeds) |-> <<"rss", k>>]
        \o [k \in 1..Len(web_sources) |-> <<"web", k>>]
        \o << <<"fallback", 0>> >>

StageOf(request) == CHOOSE k \in 1..Len(Stages) : Stages[k] = request

\* requests made in the order of Stages, none twice, a stage entered only
\* after the feed stage has requested every feed, the fallback only after a
\* scrape stage that was entered has requested every page
InOrder(att) ==
    /\ \A i, j \in 1..Len(att) : i < j => StageOf(att[i]) < StageOf(att[j])
    /\ (\E i \in 1..Len(att) : att[i][1] # "rss") =>
          \A k \in 1..Len(rss_feeds) : <<"rss", k>> \in Range(att)
    /\ (<<"fallback", 0>> \in Range(att) /\ \E i \in 1..Len(att) : att[i][1] = "web") =>
          \A k \in 1..Len(web_sources) : <<"web", k>> \in Range(att)

\* C11: within a call the requests are made in the order feeds, pages,
\* fallback, each at most once; the scrape stage is entered only with fewer
\* than limit records after the feed stage, the fallback is invoked only
\* with fewer than limit records after the scrape stage, and the result is
\* built only after these stages.
C11_StageOrder ==
    [][ /\ InOrder(attempted')
        /\ (pc = "web_gate" /\ pc' = "web") => Len(collected_news) < limit
        /\ (<<"fallback", 0>> \in Range(attempted')
              /\ <<"fallback", 0>> \notin Range(attempted)) =>
              (pc = "fb_gate" /\ Len(collected_news) < limit)
        /\ pc' = "return" => pc = "finish" ]_vars

\* a call that went through the feeds, both pages and the fallback
C11_Witness ==
    /\ Returned
    /\ attempted = Stages
    /\ Len(result) >= 1

(***************************************************************************)
(* C12: what the deduplication stage takes for the same article.           *)
(***************************************************************************)
\* C12 as stated: of two records of the working set with different non-empty
\* URLs, the deduplication stage keeps both.
C12_UrlIdentity ==
    Returned =>
        \A i, j \in 1..Len(collected_news) :
            (/\ i < j
             /\ collected_news[i].url # <<>>
             /\ collected_news[j].url # <<>>
             /\ collected_news[i].url # collected_news[j].url) =>
                \E k \in 1..Len(remove_duplicates(collected_news)) :
                    remove_duplicates(collected_news)[k].url = collected_news[j].url

(***************************************************************************)
(* C13: no record has an empty title.                                      *)
(***************************************************************************)
\* C13 as stated: no record of the working set and no returned record has an
\* empty title.
C13_NoEmptyTitle ==
    /\ \A i \in 1..Len(collected_news) : collected_news[i].title # <<>>
    /\ \A i \in 1..Len(result) : result[i].title # <<>>

(***************************************************************************)
(* C14: summaries are bounded when a record is created.                    *)
(***************************************************************************)
\* C14 as stated: every record of the working set has a summary of at most
\* 200 characters.
C14_SummaryBound ==
    \A i \in 1..Len(collected_news) : Len(collected_news[i].summary) <= 200

(***************************************************************************)
(* C15: the delay between two requests of the same kind.                   *)
(***************************************************************************)
\* C15 as stated: when a request to a source of the same kind follows the
\* last source iteration, that iteration has executed its delay.
C15_DelayBetween ==
    (pc \in {"rss", "web"} /\ last.stage = pc) => last.slept

(***************************************************************************)
(* C16: the working collection belongs to one call.                        *)
(***************************************************************************)
\* C16 as stated: a result holds only records collected by the call that
\* returns it.
C16_OwnRecords ==
    Returned => \A i \in 1..Len(result) : ~result[i].origin.earlier

C18_ShortMeansFallback ==
    (Returned /\ limit >= 1 /\ Len(result) < limit) =>
        \A k \in 1..Len(FallbackDecl) :
            \E i \in 1..Len(collected_news) :
                collected_news[i].url = FallbackDecl[k].url

=============================================================================
